---------------------------- MODULE Spec2Model ----------------------------
(***************************************************************************)
(* arxivqml: keyword canonicalisation, mapping-file persistence, corpus    *)
(* normalisation and the ingestion job, modelled from src/arxivqml.        *)
(*                                                                         *)
(* Strings are sequences of one-character strings, so that lower(),        *)
(* strip(), isupper() and title() are computed character by character.     *)
(***************************************************************************)
EXTENDS Integers, Sequences, FiniteSets, TLC

VARIABLES
    \* ---- normalize_keyword applied twice (database.py 89-152)
    keyword,        \* the raw keyword handed to normalize_keyword
    mappings,       \* the mappings dict: a sequence of (canonical, variants)
    result1,        \* normalize_keyword(keyword, mappings)
    result2,        \* normalize_keyword(result1, mappings)
    cstep,          \* "input" | "once" | "twice"
    \* ---- the mapping file and its siblings (database.py 193-295)
    osname,         \* os.name: "posix" | "nt"
    primary,        \* keywords.json
    backup,         \* keywords.json.bak
    temp,           \* per saver: its .keywords_*.json.tmp file
    spc,            \* per saver: position in save_keyword_mappings
    sdata,          \* per saver: the data argument
    sold,           \* per saver: the primary file as the save found it
    replaced,       \* the savers whose rename succeeded, in that order
    loadResult,     \* what the last load_keyword_mappings call did
    \* ---- the document store and normalize_paper_keywords (database.py 154-191)
    collection,     \* the stored papers, in cursor order
    nmappings,      \* the mappings argument of normalize_paper_keywords
    npc,            \* "off" | "idle" | "scan"
    npos,           \* the cursor: index of the next paper
    updated_count,
    error_count,
    nlog,           \* this run: what was done to each paper met
    nresults,       \* (updated_count, error_count) of the finished runs
    \* ---- run_arxiv_search_job (main.py 11-60)
    results,        \* per category: the entry ids the arXiv search returns
    runs            \* per ingestion run: its position and local variables

canonVars == <<keyword, mappings, result1, result2, cstep>>
fileVars == <<osname, primary, backup, temp>>
saveVars == <<spc, sdata, sold, replaced>>
storeVars == <<fileVars, saveVars, loadResult>>

normVars == <<nmappings, npc, npos, updated_count, error_count, nlog, nresults>>

ingestVars == <<results, runs>>

vars == <<canonVars, storeVars, collection, normVars, ingestVars>>

\* what the actions of one part leave alone
notCanonVars == <<storeVars, collection, normVars, ingestVars>>
notStoreVars == <<canonVars, collection, normVars, ingestVars>>
notNormVars == <<canonVars, storeVars, ingestVars>>
notIngestVars == <<canonVars, saveVars, loadResult, normVars>>

(***************************************************************************)
(* Bounds                                                                  *)
(***************************************************************************)
MaxKwLen == 3           \* longest enumerated raw keyword
MaxKeys == 2            \* canonical keys in an enumerated mappings dict
MaxVariants == 2        \* variants listed under one canonical key
MaxPapers == 2          \* papers in the store when a normalisation starts
NormRuns == 2           \* successive runs of normalize_paper_keywords
NumCategories == 2      \* categories searched by one run (config.CATEGORIES)
MaxResults == 3         \* results the searches of one job return, all categories together

(***************************************************************************)
(* str methods used by database.py                                         *)
(***************************************************************************)
LowerLetters == {"n", "s"}
UpperLetters == {"N", "S"}
Space == " "

\* str.lower() on one character
LowerChar(c) == CASE c = "N" -> "n" [] c = "S" -> "s" [] OTHER -> c
\* str.upper() on one character
UpperChar(c) == CASE c = "n" -> "N" [] c = "s" -> "S" [] OTHER -> c

IsCased(c) == c \in LowerLetters \cup UpperLetters

\* str.lower()
Lower(s) == [i \in 1..Len(s) |-> LowerChar(s[i])]
\* str.upper()
Upper(s) == [i \in 1..Len(s) |-> UpperChar(s[i])]

RECURSIVE LStrip(_)
LStrip(s) == IF s # <<>> /\ Head(s) = Space THEN LStrip(Tail(s)) ELSE s

RECURSIVE RStrip(_)
RStrip(s) ==
    IF s # <<>> /\ s[Len(s)] = Space THEN RStrip(SubSeq(s, 1, Len(s) - 1)) ELSE s

\* str.strip()
Strip(s) == RStrip(LStrip(s))

\* str.isupper(): at least one cased character and no lower-case one
IsUpper(s) ==
    /\ \E i \in 1..Len(s) : IsCased(s[i])
    /\ \A i \in 1..Len(s) : s[i] \notin LowerLetters

\* str.title(): a cased character is upper-cased when it follows an uncased
\* one (or starts the string) and lower-cased otherwise
Title(s) ==
    [i \in 1..Len(s) |->
        IF i = 1 \/ ~IsCased(s[i - 1]) THEN UpperChar(s[i]) ELSE LowerChar(s[i])]

\* ' ' in keyword
HasSpace(s) == \E i \in 1..Len(s) : s[i] = Space

(***************************************************************************)
(* capitalize_keyword (database.py 110-152)                                *)
(***************************************************************************)
AcronymMaxLen == 4

\* the special_cases dict: (lower-cased key, exact spelling)
special_cases ==
    { << <<"d","-","w","a","v","e">>, <<"D","-","W","a","v","e">> >>,
      << <<"p","e","n","n","y","l","a","n","e">>,
         <<"P","e","n","n","y","L","a","n","e">> >>,
      << <<"i","b","m"," ","q","u","a","n","t","u","m">>,
         <<"I","B","M"," ","Q","u","a","n","t","u","m">> >>,
      << <<"x","a","n","a","d","u">>, <<"X","a","n","a","d","u">> >>,
      << <<"v","q","a">>, <<"V","Q","A">> >>,
      << <<"v","q","a","s">>, <<"V","Q","A","s">> >>,
      << <<"q","a","o","a">>, <<"Q","A","O","A">> >>,
      << <<"q","n","n">>, <<"Q","N","N">> >>,
      << <<"s","v","m">>, <<"S","V","M">> >>,
      << <<"m","l">>, <<"M","L">> >>,
      << <<"a","i">>, <<"A","I">> >>,
      << <<"n","n">>, <<"N","N">> >>,
      << <<"n","n","s">>, <<"N","N","s">> >> }

InSpecialCases(k) == \E e \in special_cases : e[1] = k
SpecialCase(k) == (CHOOSE e \in special_cases : e[1] = k)[2]

capitalize_keyword(kw) ==
    LET keyword_lower == Strip(Lower(kw))
    IN  IF InSpecialCases(keyword_lower) THEN SpecialCase(keyword_lower)
        ELSE IF Len(kw) <= AcronymMaxLen /\ IsUpper(kw) /\ ~HasSpace(kw)
             THEN Upper(kw)
             ELSE Title(kw)

(***************************************************************************)
(* normalize_keyword (database.py 89-108)                                  *)
(***************************************************************************)
\* keyword_lower in [v.lower() for v in variants]
VariantMatch(keyword_lower, variants) ==
    \E j \in 1..Len(variants) : Lower(variants[j]) = keyword_lower

\* normalize_keyword without the loop of lines 102-104
normalize_keyword_heuristic_only(kw, m) == capitalize_keyword(Strip(kw))

\* the loop of lines 102-104 keeping the last match instead of returning
\* at the first
normalize_keyword_last_match(kw, m) ==
    LET keyword_lower == Strip(Lower(kw))
        hits == {i \in 1..Len(m) : VariantMatch(keyword_lower, m[i].variants)}
    IN  IF hits # {}
        THEN m[CHOOSE i \in hits : \A j \in hits : i >= j].canonical
        ELSE capitalize_keyword(Strip(kw))

normalize_keyword(kw, m) ==
    LET keyword_lower == Strip(Lower(kw))
        hits == {i \in 1..Len(m) : VariantMatch(keyword_lower, m[i].variants)}
    IN  IF hits # {}
        THEN m[CHOOSE i \in hits : \A j \in hits : i <= j].canonical
        ELSE capitalize_keyword(Strip(kw))

(***************************************************************************)
(* Inputs of the canonicaliser                                             *)
(***************************************************************************)
Alphabet == {"n", "N", Space}

RECURSIVE StringsOfLen(_)
StringsOfLen(n) ==
    IF n = 0 THEN {<<>>}
    ELSE {Append(s, c) : s \in StringsOfLen(n - 1), c \in Alphabet}

RECURSIVE StringsUpTo(_)
StringsUpTo(n) == IF n = 0 THEN {<<>>} ELSE StringsOfLen(n) \cup StringsUpTo(n - 1)

\* keywords longer than the acronym limit, and ones spelling special cases
SampleKeywords ==
    { <<"N","N","N","N","N">>, <<"n","n","n","n","n">>,
      <<"n","n","s">>, <<"N","N","S">>, <<"N","N","s">> }

\* callers never pass an empty or whitespace-only keyword
Keywords == {s \in StringsUpTo(MaxKwLen) \cup SampleKeywords : Strip(s) # <<>>}

\* canonical keys and variants an operator may have typed or selected
CanonicalPool == { <<"N","N">>, <<"n"," ","n">>, <<"N"," ","N">> }
VariantPool == { <<"N","N">>, <<"n"," ","n">> }

RECURSIVE SeqsNoDup(_, _)
\* sequences without repetition of at most n elements of S
SeqsNoDup(S, n) ==
    IF n = 0 THEN {<<>>}
    ELSE LET shorter == SeqsNoDup(S, n - 1)
         IN  shorter \cup
             {Append(q, x) : q \in {r \in shorter : Len(r) = n - 1},
                             x \in S}

IsInjective(q) == \A i, j \in 1..Len(q) : i # j => q[i] # q[j]

VariantLists == {q \in SeqsNoDup(VariantPool, MaxVariants) : IsInjective(q)}

MappingEntries == [canonical : CanonicalPool, variants : VariantLists]

RECURSIVE MappingsUpTo(_)
\* a dict keeps keys unique and iterates in insertion order
MappingsUpTo(n) ==
    IF n = 0 THEN {<<>>}
    ELSE LET shorter == MappingsUpTo(n - 1)
         IN  shorter \cup
             {Append(m, e) : m \in {r \in shorter : Len(r) = n - 1},
                             e \in MappingEntries}

UniqueKeys(m) == \A i, j \in 1..Len(m) : i # j => m[i].canonical # m[j].canonical

MappingTables == {m \in MappingsUpTo(MaxKeys) : UniqueKeys(m)}

\* the canonical form is a free text input (app.py 253-257) that may be
\* left empty
EmptyKeyTables == {<< [canonical |-> <<>>, variants |-> v] >> : v \in VariantLists}

None == <<"None">>

(***************************************************************************)
(* Files and JSON documents                                                *)
(***************************************************************************)
Fields == {"mappings", "hierarchy", "unmapped_keywords"}

\* A parsed JSON document.  kind "dict" is a JSON object whose top-level keys
\* among Fields are `has`; a field it lacks holds the empty filler here.
\* kind "list" stands for every root that is not an object.
Doc(kind, has, m, h, u) ==
    [kind |-> kind, has |-> has,
     mappings |-> IF "mappings" \in has THEN m ELSE <<>>,
     hierarchy |-> IF "hierarchy" \in has THEN h ELSE <<>>,
     unmapped_keywords |-> IF "unmapped_keywords" \in has THEN u ELSE <<>>]

\* default_data (database.py 205)
default_data == Doc("dict", Fields, <<>>, <<>>, <<>>)

TableA == << [canonical |-> <<"N"," ","N">>, variants |-> << <<"N","N">> >>] >>
TableB == << [canonical |-> <<"n"," ","n">>, variants |-> << <<"N","N">> >>] >>
\* two keys and a key with two variants, so that order shows
TableC ==
    << [canonical |-> <<"N"," ","N">>, variants |-> << <<"N","N">>, <<"n"," ","n">> >>],
       [canonical |-> <<"N","N">>, variants |-> << <<"n","n">> >>] >>
\* hierarchy is a dict like mappings; unmapped_keywords a list of strings
SomeHierarchy == << [canonical |-> <<"N"," ","N">>, variants |-> <<>>] >>
SomeBacklog == << <<"N","n">> >>

FullA == Doc("dict", Fields, TableA, SomeHierarchy, <<>>)
FullB == Doc("dict", Fields, TableB, <<>>, SomeBacklog)
FullC == Doc("dict", Fields, TableC, SomeHierarchy, SomeBacklog)
OnlyMappings == Doc("dict", {"mappings"}, TableA, <<>>, <<>>)
EmptyObject == Doc("dict", {}, <<>>, <<>>, <<>>)
NotARecord == Doc("list", {}, <<>>, <<>>, <<>>)

\* documents a mapping file may hold when an operation starts
FileDocs == {FullA, FullB, OnlyMappings, EmptyObject, NotARecord}
\* tables a caller hands to save_keyword_mappings
SaveDocs == {FullA, FullB}

(***************************************************************************)
(* json.dump and json.load (database.py 276, 213, 234).  A JSON text is    *)
(* the sequence of its tokens; a string token carries its characters.      *)
(***************************************************************************)
LBrace == <<"{">>
RBrace == <<"}">>
LBracket == <<"[">>
RBracket == <<"]">>
KeyTok(s) == <<"key", s>>
StrTok(s) == <<"str", s>>
FieldTok(name) == <<"key", <<name>> >>

\* a list of strings
DumpList(q) == <<LBracket>> \o [i \in 1..Len(q) |-> StrTok(q[i])] \o <<RBracket>>

RECURSIVE DumpItems(_)
DumpItems(m) ==
    IF m = <<>> THEN <<>>
    ELSE <<KeyTok(Head(m).canonical)>> \o DumpList(Head(m).variants)
            \o DumpItems(Tail(m))

\* json.dump with sort_keys=True would give the keys in another order
DumpDict_reordered(m) ==
    <<LBrace>> \o DumpItems([i \in 1..Len(m) |-> m[Len(m) + 1 - i]]) \o <<RBrace>>

\* a dict of lists, its items in iteration order
DumpDict(m) == <<LBrace>> \o DumpItems(m) \o <<RBrace>>

\* json.dump(data, f, indent=2): the complete text of a document
Serialize(d) ==
    IF d.kind # "dict" THEN DumpList(<<>>)
    ELSE <<LBrace>>
         \o (IF "mappings" \in d.has
             THEN <<FieldTok("mappings")>> \o DumpDict(d.mappings) ELSE <<>>)
         \o (IF "hierarchy" \in d.has
             THEN <<FieldTok("hierarchy")>> \o DumpDict(d.hierarchy) ELSE <<>>)
         \o (IF "unmapped_keywords" \in d.has
             THEN <<FieldTok("unmapped_keywords")>> \o DumpList(d.unmapped_keywords)
             ELSE <<>>)
         \o <<RBrace>>

\* a proper prefix of that text, which no JSON parser accepts
Truncated(d) == SubSeq(Serialize(d), 1, Len(Serialize(d)) - 1)
Garbage == << <<"garbage">> >>

ParseFail == [ok |-> FALSE, val |-> <<>>, next |-> 0]
ParseOk(v, n) == [ok |-> TRUE, val |-> v, next |-> n]

RECURSIVE ParseStrings(_, _, _)
ParseStrings(text, i, acc) ==
    IF i > Len(text) THEN ParseFail
    ELSE IF text[i] = RBracket THEN ParseOk(acc, i + 1)
    ELSE IF text[i][1] = "str" THEN ParseStrings(text, i + 1, Append(acc, text[i][2]))
    ELSE ParseFail

ParseList(text, i) ==
    IF i <= Len(text) /\ text[i] = LBracket THEN ParseStrings(text, i + 1, <<>>)
    ELSE ParseFail

\* d[k] = v on a dict: a key already present keeps its place
DictSet(d, k, v) ==
    IF \E j \in 1..Len(d) : d[j].canonical = k
    THEN [j \in 1..Len(d) |->
             IF d[j].canonical = k THEN [canonical |-> k, variants |-> v] ELSE d[j]]
    ELSE Append(d, [canonical |-> k, variants |-> v])

RECURSIVE ParseItems(_, _, _)
\* one key of a dict read, its list parsed as r
ItemParsed(text, key, r, acc) ==
    IF r.ok THEN ParseItems(text, r.next, DictSet(acc, key, r.val)) ELSE ParseFail

ParseItems(text, i, acc) ==
    IF i > Len(text) THEN ParseFail
    ELSE IF text[i] = RBrace THEN ParseOk(acc, i + 1)
    ELSE IF text[i][1] = "key"
         THEN ItemParsed(text, text[i][2], ParseList(text, i + 1), acc)
         ELSE ParseFail

ParseDict(text, i) ==
    IF i <= Len(text) /\ text[i] = LBrace THEN ParseItems(text, i + 1, <<>>)
    ELSE ParseFail

RECURSIVE ParseFields(_, _, _)
\* one top-level field read, its value parsed as r
FieldParsed(text, name, r, doc) ==
    IF r.ok
    THEN ParseFields(text, r.next,
            [doc EXCEPT !.has = @ \cup {name}, ![name] = r.val])
    ELSE ParseFail

ParseFields(text, i, doc) ==
    IF i > Len(text) THEN ParseFail
    ELSE IF text[i] = RBrace THEN ParseOk(doc, i + 1)
    ELSE IF text[i] = FieldTok("mappings")
         THEN FieldParsed(text, "mappings", ParseDict(text, i + 1), doc)
    ELSE IF text[i] = FieldTok("hierarchy")
         THEN FieldParsed(text, "hierarchy", ParseDict(text, i + 1), doc)
    ELSE IF text[i] = FieldTok("unmapped_keywords")
         THEN FieldParsed(text, "unmapped_keywords", ParseList(text, i + 1), doc)
    ELSE ParseFail

\* the root value must take the whole text
WholeText(text, r) == IF r.ok /\ r.next = Len(text) + 1 THEN r ELSE ParseFail

\* json.load(f)
json_load(text) ==
    IF text = <<>> THEN ParseFail
    ELSE IF text = <<LBracket, RBracket>> THEN ParseOk(NotARecord, 3)
    ELSE IF text[1] = LBrace THEN WholeText(text, ParseFields(text, 2, EmptyObject))
    ELSE ParseFail

\* json.load(f): the document, or a JSONDecodeError
Parses(text) == json_load(text).ok
Parsed(text) == json_load(text).val

Absent == [exists |-> FALSE, readable |-> FALSE, text |-> Garbage]
File(text) == [exists |-> TRUE, readable |-> TRUE, text |-> text]
\* a file that exists and that open() refuses (permissions, a directory)
Unreadable == [exists |-> TRUE, readable |-> FALSE, text |-> Garbage]

FileStates ==
    {Absent, Unreadable, File(Garbage)} \cup {File(Serialize(d)) : d \in FileDocs}

(***************************************************************************)
(* load_keyword_mappings (database.py 193-241)                             *)
(***************************************************************************)
Raised(what) == [raised |-> TRUE, error |-> what, value |-> NotARecord]
Returned(d) == [raised |-> FALSE, error |-> "", value |-> d]

\* lines 217-222: missing top-level fields are filled with empty defaults
FillDefaults(d) == Doc("dict", Fields, d.mappings, d.hierarchy, d.unmapped_keywords)

\* lines 228-241: the backup is returned as json.load gave it
BackupParsed(r) == IF r.ok THEN Returned(r.val) ELSE Returned(default_data)

LoadBackup(b) ==
    IF b.exists /\ b.readable THEN BackupParsed(json_load(b.text))
    ELSE Returned(default_data)

\* lines 213-225 once json.load has returned or raised
PrimaryParsed(r, b) ==
    IF ~r.ok THEN LoadBackup(b)
    ELSE IF r.val.kind # "dict" THEN LoadBackup(b)
    ELSE Returned(FillDefaults(r.val))

load_keyword_mappings(p, b) ==
    IF ~p.exists THEN Returned(default_data)
    ELSE IF ~p.readable THEN Raised("OSError")
    ELSE PrimaryParsed(json_load(p.text), b)

(***************************************************************************)
(* save_keyword_mappings (database.py 243-295), one step per system call   *)
(***************************************************************************)
Savers == {1, 2}

\* what a copy that stops part-way leaves in the destination
PartialCopy(text) == IF Len(text) > 1 THEN SubSeq(text, 1, Len(text) - 1) ELSE Garbage

SaveBegin(p, d) ==
    /\ spc[p] = "idle"
    /\ spc' = [spc EXCEPT ![p] = "backup"]
    /\ sdata' = [sdata EXCEPT ![p] = d]
    /\ sold' = [sold EXCEPT ![p] = primary]
    /\ UNCHANGED <<fileVars, replaced, loadResult, notStoreVars>>

\* lines 259-264: shutil.copy2 of an existing primary, best effort
SaveBackup(p) ==
    /\ spc[p] = "backup"
    /\ \/ /\ ~primary.exists
          /\ UNCHANGED backup
       \/ /\ primary.exists /\ primary.readable
          /\ backup' = File(primary.text)
       \/ /\ primary.exists /\ primary.readable
          /\ backup' = File(PartialCopy(primary.text))
       \/ /\ primary.exists
          /\ UNCHANGED backup
    /\ spc' = [spc EXCEPT ![p] = "mkstemp"]
    /\ UNCHANGED <<osname, primary, temp, sdata, sold, replaced, loadResult,
                   notStoreVars>>

\* lines 267-271: tempfile.mkstemp, outside the try block
SaveMkstemp(p) ==
    /\ spc[p] = "mkstemp"
    /\ \/ /\ temp' = [temp EXCEPT ![p] = File(Truncated(sdata[p]))]
          /\ spc' = [spc EXCEPT ![p] = "write"]
       \/ /\ UNCHANGED temp
          /\ spc' = [spc EXCEPT ![p] = "raised"]
    /\ UNCHANGED <<osname, primary, backup, sdata, sold, replaced, loadResult,
                   notStoreVars>>

\* lines 275-278: json.dump, flush, fsync
SaveWrite(p) ==
    /\ spc[p] = "write"
    /\ \/ /\ temp' = [temp EXCEPT ![p] = File(Serialize(sdata[p]))]
          /\ spc' = [spc EXCEPT ![p] = "replace"]
       \/ /\ UNCHANGED temp
          /\ spc' = [spc EXCEPT ![p] = "cleanup"]
    /\ UNCHANGED <<osname, primary, backup, sdata, sold, replaced, loadResult,
                   notStoreVars>>

\* lines 283-287 up to the rename: on Windows the primary is removed first
SaveReplace(p) ==
    /\ spc[p] = "replace"
    /\ \/ /\ osname = "posix"
          /\ primary' = temp[p]
          /\ temp' = [temp EXCEPT ![p] = Absent]
          /\ spc' = [spc EXCEPT ![p] = "done"]
          /\ replaced' = Append(replaced, p)
       \/ /\ osname = "nt" /\ primary.exists
          /\ primary' = Absent
          /\ spc' = [spc EXCEPT ![p] = "rename"]
          /\ UNCHANGED <<temp, replaced>>
       \/ /\ osname = "nt" /\ ~primary.exists
          /\ spc' = [spc EXCEPT ![p] = "rename"]
          /\ UNCHANGED <<primary, temp, replaced>>
       \/ /\ spc' = [spc EXCEPT ![p] = "cleanup"]
          /\ UNCHANGED <<primary, temp, replaced>>
    /\ UNCHANGED <<osname, backup, sdata, sold, loadResult, notStoreVars>>

\* line 287 on Windows: os.rename refuses an existing target
SaveRename(p) ==
    /\ spc[p] = "rename"
    /\ \/ /\ ~primary.exists
          /\ primary' = temp[p]
          /\ temp' = [temp EXCEPT ![p] = Absent]
          /\ spc' = [spc EXCEPT ![p] = "done"]
          /\ replaced' = Append(replaced, p)
       \/ /\ spc' = [spc EXCEPT ![p] = "cleanup"]
          /\ UNCHANGED <<primary, temp, replaced>>
    /\ UNCHANGED <<osname, backup, sdata, sold, loadResult, notStoreVars>>

\* lines 289-295: remove the temp file if that works, then raise
SaveCleanup(p) ==
    /\ spc[p] = "cleanup"
    /\ \/ temp' = [temp EXCEPT ![p] = Absent]
       \/ UNCHANGED temp
    /\ spc' = [spc EXCEPT ![p] = "raised"]
    /\ UNCHANGED <<osname, primary, backup, sdata, sold, replaced, loadResult,
                   notStoreVars>>

SaveRunning(p) == spc[p] \in {"backup", "mkstemp", "write", "replace", "rename", "cleanup"}

\* the process dies between two system calls
Crash(p) ==
    /\ SaveRunning(p)
    /\ spc' = [spc EXCEPT ![p] = "crashed"]
    /\ UNCHANGED <<fileVars, sdata, sold, replaced, loadResult, notStoreVars>>

\* a call of load_keyword_mappings by any process; p, b and at are history:
\* the two files as the call found them and where each save stood
Load ==
    /\ loadResult' = load_keyword_mappings(primary, backup)
                        @@ [p |-> primary, b |-> backup, at |-> spc]
    /\ UNCHANGED <<fileVars, saveVars, notStoreVars>>

(***************************************************************************)
(* Apply Merge (app.py 266-279): the table a process loaded gets the       *)
(* selected keywords appended under the canonical form, and is saved       *)
(***************************************************************************)
RECURSIVE AppendNew(_, _)
\* lines 272-274: for kw in selected_keywords, append it if not yet listed
AppendNew(variants, selected) ==
    IF selected = <<>> THEN variants
    ELSE AppendNew(IF \E j \in 1..Len(variants) : variants[j] = Head(selected)
                   THEN variants ELSE Append(variants, Head(selected)),
                   Tail(selected))

\* lines 268-274
ApplyMerge(m, canonical_form, selected_keywords) ==
    LET m1 == IF \E j \in 1..Len(m) : m[j].canonical = canonical_form THEN m
              ELSE Append(m, [canonical |-> canonical_form, variants |-> <<>>])
    IN  [j \in 1..Len(m1) |->
            IF m1[j].canonical = canonical_form
            THEN [m1[j] EXCEPT !.variants = AppendNew(@, selected_keywords)]
            ELSE m1[j]]

\* line 278: keyword_data["mappings"] = mappings
WithMappings(keyword_data, m) ==
    [keyword_data EXCEPT !.has = @ \cup {"mappings"}, !.mappings = m]

\* the merge each of two operators applies
MergeOf(p) ==
    IF p = 1 THEN [canonical_form |-> <<"N"," ","N">>,
                   selected_keywords |-> << <<"n"," ","n">> >>]
    ELSE [canonical_form |-> <<"N","N">>,
          selected_keywords |-> << <<"n","n">>, <<"N","n">> >>]

\* app.py 167-168 and 266-279 up to the call of save_keyword_mappings.  The
\* page may have loaded the table long before: a save that has begun and
\* not yet touched a file stands for that
MergeBegin(p) ==
    LET got == load_keyword_mappings(primary, backup)
    IN  /\ ~got.raised
        /\ got.value.kind = "dict"
        /\ SaveBegin(p, WithMappings(got.value,
                          ApplyMerge(got.value.mappings, MergeOf(p).canonical_form,
                                     MergeOf(p).selected_keywords)))

(***************************************************************************)
(* normalize_paper_keywords (database.py 154-191)                          *)
(***************************************************************************)
\* a keywords element that is not a string (kw.lower() raises)
NonString == <<"int">>

RECURSIVE ListOrders(_)
\* every order list(set(...)) may give: set iteration order is not specified
ListOrders(S) ==
    IF S = {} THEN {<<>>}
    ELSE UNION {{<<x>> \o q : q \in ListOrders(S \ {x})} : x \in S}

ToSet(q) == {q[i] : i \in 1..Len(q)}

\* [normalize_keyword(kw, mappings) for kw in paper['keywords']]
NormalizeAll(kws, m) == [i \in 1..Len(kws) |-> normalize_keyword(kws[i], m)]

\* a dict without a relevance_score key
NoScore == 0 - 1

Paper(id, has, kws, score) ==
    [entry_id |-> id, has_keywords |-> has, keywords |-> kws, relevance_score |-> score]

\* line 177: normalized != paper['keywords'], a comparison of lists
KeywordsChanged(normalized, stored) == normalized # stored

NormStart ==
    /\ npc = "idle"
    /\ Len(nresults) < NormRuns
    /\ npc' = "scan"
    /\ npos' = 1
    /\ updated_count' = 0
    /\ error_count' = 0
    /\ nlog' = <<>>
    /\ UNCHANGED <<collection, nmappings, nresults, notNormVars>>

\* lines 172 and 99: kw.lower() raises on an element that is no string
ItemRaises_never(paper) == FALSE

ItemRaises(paper) == paper.has_keywords /\ NonString \in ToSet(paper.keywords)

\* one iteration of the for loop, lines 169-189
NormItem ==
    /\ npc = "scan"
    /\ npos <= Len(collection)
    /\ LET paper == collection[npos]
           entry(after, wrote, raised) ==
               [idx |-> npos, had |-> paper.has_keywords, before |-> paper.keywords,
                after |-> after, wrote |-> wrote, raised |-> raised]
       IN  \/ /\ ~paper.has_keywords
              /\ nlog' = Append(nlog, entry(<<>>, FALSE, FALSE))
              /\ UNCHANGED <<collection, updated_count, error_count>>
           \/ /\ ItemRaises(paper)
              /\ error_count' = error_count + 1
              /\ nlog' = Append(nlog, entry(<<>>, FALSE, TRUE))
              /\ UNCHANGED <<collection, updated_count>>
           \/ /\ paper.has_keywords
              /\ ~ItemRaises(paper)
              /\ \E normalized \in
                     ListOrders(ToSet(NormalizeAll(paper.keywords, nmappings))) :
                   IF KeywordsChanged(normalized, paper.keywords)
                   THEN \/ /\ collection' =
                                 [collection EXCEPT ![npos].keywords = normalized]
                           /\ updated_count' = updated_count + 1
                           /\ nlog' = Append(nlog, entry(normalized, TRUE, FALSE))
                           /\ UNCHANGED error_count
                        \* lines 178-181: update_one raises (store unreachable)
                        \/ /\ error_count' = error_count + 1
                           /\ nlog' = Append(nlog, entry(normalized, FALSE, TRUE))
                           /\ UNCHANGED <<collection, updated_count>>
                   ELSE /\ nlog' = Append(nlog, entry(normalized, FALSE, FALSE))
                        /\ UNCHANGED <<collection, updated_count, error_count>>
    /\ npos' = npos + 1
    /\ UNCHANGED <<nmappings, npc, nresults, notNormVars>>

\* line 191: return updated_count, error_count
NormReturn ==
    /\ npc = "scan"
    /\ npos > Len(collection)
    /\ nresults' = Append(nresults, <<updated_count, error_count>>)
    /\ npc' = "idle"
    /\ UNCHANGED <<collection, nmappings, npos, updated_count, error_count, nlog,
                   notNormVars>>

\* Apply Merge with line 282 moved out of the try block: the corpus is
\* normalised whether the save returned or raised
MergeNormalize_after_any_save(p) ==
    /\ spc[p] \in {"done", "raised"}
    /\ npc = "off"
    /\ nmappings' = sdata[p].mappings
    /\ npc' = "scan"
    /\ npos' = 1
    /\ updated_count' = 0
    /\ error_count' = 0
    /\ nlog' = <<>>
    /\ UNCHANGED <<collection, nresults, notNormVars>>

\* app.py 276-282: inside the try block line 282 follows the call of
\* save_keyword_mappings of line 279, so it runs only when that call has
\* returned; when it raised, control is in the handler of lines 290-292.
\* The corpus is normalised with the table the page holds in memory
\* (lines 165-169 of database.py)
MergeNormalize(p) ==
    /\ spc[p] = "done"
    /\ npc = "off"
    /\ nmappings' = sdata[p].mappings
    /\ npc' = "scan"
    /\ npos' = 1
    /\ updated_count' = 0
    /\ error_count' = 0
    /\ nlog' = <<>>
    /\ UNCHANGED <<collection, nresults, notNormVars>>

(***************************************************************************)
(* The ingestion job: main.py, arxiv_search.py, curation.py, and           *)
(* paper_exists / insert_papers of database.py                             *)
(***************************************************************************)
RunIds == {1, 2}
Categories == 1..NumCategories
EntryIds == {1, 2}

\* config.MIN_RELEVANCE_SCORE
MIN_RELEVANCE_SCORE == 5

\* database.py 24-26
paper_exists(coll, id) == \E i \in 1..Len(coll) : coll[i].entry_id = id

\* insert_papers without the check of line 35
InsertNeeded_unchecked(coll, id) == TRUE

\* database.py 35: if not paper_exists(collection, paper.get("entry_id"))
InsertNeeded(coll, id) == ~paper_exists(coll, id)

\* arxiv_search.py 26-47: the results not yet stored, as dicts without
\* curation data
NewPapers(ids, coll) ==
    LET fresh(id) == ~paper_exists(coll, id)
        kept == SelectSeq(ids, fresh)
    IN  [i \in 1..Len(kept) |-> Paper(kept[i], FALSE, <<>>, NoScore)]

\* what the LLM may answer for one paper (curation.py 69-77): nothing that
\* parses, or JSON with a score and raw keywords, or JSON without a
\* relevance_score, or JSON whose score is not a number
LLMResponses ==
    { [kind |-> "fail", score |-> NoScore, keywords |-> <<>>],
      [kind |-> "noscore", score |-> NoScore, keywords |-> << <<"N","N">> >>],
      [kind |-> "json", score |-> 4, keywords |-> << <<"N","N">> >>],
      [kind |-> "json", score |-> 7, keywords |-> << <<"N","N">> >>],
      [kind |-> "json", score |-> 7, keywords |-> << <<"n","n">>, <<"N","N">> >>],
      [kind |-> "badscore", score |-> NoScore, keywords |-> << <<"N","N">> >>] }

\* curation.py 68-94 for one paper: the dicts it appends to curated_papers.
\* A response without relevance_score is appended at line 89, raises
\* KeyError at line 90, and the paper is appended again at line 94.
CurateOne(paper, resp, m) ==
    IF resp.kind = "fail"
    THEN {[id |-> paper.entry_id, docs |-> <<paper>>, raw |-> <<>>,
           scored |-> FALSE, bad |-> FALSE]}
    ELSE IF resp.kind = "noscore"
    THEN {[id |-> paper.entry_id,
           docs |-> <<Paper(paper.entry_id, TRUE, kws, NoScore), paper>>,
           raw |-> resp.keywords, scored |-> FALSE, bad |-> FALSE] :
             kws \in ListOrders(ToSet(NormalizeAll(resp.keywords, m)))}
    ELSE {[id |-> paper.entry_id,
           docs |-> <<Paper(paper.entry_id, TRUE, kws, resp.score)>>,
           raw |-> resp.keywords, scored |-> TRUE, bad |-> resp.kind = "badscore"] :
             kws \in ListOrders(ToSet(NormalizeAll(resp.keywords, m)))}

CuratedPapers(papers, m) ==
    UNION {CurateOne(papers[i], resp, m) : i \in 1..Len(papers), resp \in LLMResponses}

RECURSIVE Flatten(_)
\* curated_papers: what the iterations appended, in order
Flatten(qs) == IF qs = <<>> THEN <<>> ELSE Head(qs) \o Flatten(Tail(qs))

\* p.get('relevance_score', 0) with another default
ScoreOf_default_max(doc) == IF doc.relevance_score = NoScore THEN 10 ELSE doc.relevance_score

\* p.get('relevance_score', 0)
ScoreOf(doc) == IF doc.relevance_score = NoScore THEN 0 ELSE doc.relevance_score

\* main.py 47-50
PassesFilter(doc) == ScoreOf(doc) >= MIN_RELEVANCE_SCORE

\* attempted, loaded, start, curated and unscored are history: the
\* categories whose search was called; when logged holds "tables", whether
\* curate_papers has loaded a table yet, the mappings its first load gave,
\* and each raw keyword list scored with the keywords stored for it; when
\* logged holds "scores", the papers that came out of curate_papers
\* without a relevance_score
IdleRun ==
    [pc |-> "idle", cat |-> 0, papers |-> <<>>, pos |-> 0,
     attempted |-> {}, logged |-> {}, loaded |-> FALSE, start |-> <<>>,
     curated |-> {}, unscored |-> {}]

StartedRun(run) == [run EXCEPT !.pc = "search", !.cat = 1]

\* the history of one more curate_papers call that loaded table m
Logged(run, m, pairs, ids) ==
    LET tabled == IF "tables" \notin run.logged THEN run
                  ELSE [run EXCEPT !.loaded = TRUE,
                                   !.start = IF run.loaded THEN run.start ELSE m,
                                   !.curated = run.curated \cup pairs]
    IN  IF "scores" \notin run.logged THEN tabled
        ELSE [tabled EXCEPT !.unscored = run.unscored \cup ids]

\* the for loop of main.py 25 moving on, or the job finishing
NextCategory(run) ==
    IF run.cat < NumCategories
    THEN [run EXCEPT !.pc = "search", !.cat = run.cat + 1, !.papers = <<>>, !.pos = 0]
    ELSE [run EXCEPT !.pc = "done", !.papers = <<>>, !.pos = 0]

Aborted(run) == [run EXCEPT !.pc = "aborted"]

RunStopped(r) == runs[r].pc \in {"done", "aborted"}

\* main.py 11-22: connections made, the loop about to start
RunStart(r) ==
    /\ runs[r].pc = "idle"
    /\ runs' = [runs EXCEPT ![r] = StartedRun(runs[r])]
    /\ UNCHANGED <<results, collection, fileVars, notIngestVars>>

\* main.py 29-37: search_arxiv returns, and an empty list skips the category
Search(r) ==
    /\ runs[r].pc = "search"
    /\ LET run == [runs[r] EXCEPT !.attempted = @ \cup {runs[r].cat}]
           new_papers == NewPapers(results[run.cat], collection)
       IN  runs' = [runs EXCEPT ![r] =
                       IF new_papers = <<>> THEN NextCategory(run)
                       ELSE [run EXCEPT !.pc = "curate", !.papers = new_papers]]
    /\ UNCHANGED <<results, collection, fileVars, notIngestVars>>

\* arxiv_search.py 27-28: client.results raises (network, HTTP error);
\* main.py has no handler around the call
SearchRaises(r) ==
    /\ runs[r].pc = "search"
    /\ runs' = [runs EXCEPT ![r] =
                   Aborted([runs[r] EXCEPT !.attempted = @ \cup {runs[r].cat}])]
    /\ UNCHANGED <<results, collection, fileVars, notIngestVars>>

\* main.py 40-58 up to the call of insert_papers, the table loaded being
\* m: each paper is scored and the list is filtered by score
CurateWith(r, m) ==
    LET run == runs[r]
    IN  \E cs \in [1..Len(run.papers) -> CuratedPapers(run.papers, m)] :
           /\ \A i \in 1..Len(cs) : cs[i].id = run.papers[i].entry_id
           /\ \A i \in 1..Len(cs) : ~cs[i].bad
           /\ LET curated_papers == Flatten([i \in 1..Len(cs) |-> cs[i].docs])
                  filtered_papers == SelectSeq(curated_papers, PassesFilter)
                  seen == Logged(run, m,
                             {[raw |-> cs[i].raw, keywords |-> cs[i].docs[1].keywords] :
                                 i \in {j \in 1..Len(cs) : cs[j].scored}},
                             {cs[i].id : i \in {j \in 1..Len(cs) : ~cs[j].scored}})
              IN  runs' = [runs EXCEPT ![r] =
                      IF filtered_papers = <<>>
                      THEN NextCategory(seen)
                      ELSE [seen EXCEPT !.pc = "insert", !.papers = filtered_papers,
                                        !.pos = 1]]

\* curation.py 40-41: the table curate_papers works with, when the load
\* returns a dict
LoadedMappings(got) ==
    IF ~got.raised /\ got.value.kind = "dict" THEN <<got.value.mappings>> ELSE <<>>

\* a sequence that holds the table, if one was loaded
CurateLoaded(r, loaded) == loaded # <<>> /\ CurateWith(r, loaded[1])

\* main.py 40-58 up to the call of insert_papers: curate_papers loads the
\* mapping table (curation.py 40-41), scores each paper, and the list is
\* filtered by score
Curate(r) ==
    /\ runs[r].pc = "curate"
    /\ CurateLoaded(r, LoadedMappings(load_keyword_mappings(primary, backup)))
    /\ UNCHANGED <<results, collection, fileVars, notIngestVars>>

\* the scoring step raising out of main.py 40-50: load_keyword_mappings
\* raises, its result is no dict (keyword_data.get), or a score that is not
\* a number meets >= in the filter
CurateRaises(r) ==
    /\ runs[r].pc = "curate"
    /\ \/ LoadedMappings(load_keyword_mappings(primary, backup)) = <<>>
       \/ \E resp \in LLMResponses : resp.kind = "badscore"
    /\ runs' = [runs EXCEPT ![r] = Aborted(runs[r])]
    /\ UNCHANGED <<results, collection, fileVars, notIngestVars>>

\* database.py 34-35 and 40-41: the existence check of the next paper
InsertCheck(r) ==
    /\ runs[r].pc = "insert"
    /\ LET run == runs[r]
       IN  runs' = [runs EXCEPT ![r] =
               IF run.pos > Len(run.papers) THEN NextCategory(run)
               ELSE IF InsertNeeded(collection, run.papers[run.pos].entry_id)
                    THEN [run EXCEPT !.pc = "insert_one"]
                    ELSE [run EXCEPT !.pos = run.pos + 1]]
    /\ UNCHANGED <<results, collection, fileVars, notIngestVars>>

\* database.py 36-38: collection.insert_one(paper)
InsertOne(r) ==
    /\ runs[r].pc = "insert_one"
    /\ collection' = Append(collection, runs[r].papers[runs[r].pos])
    /\ runs' = [runs EXCEPT ![r] = [runs[r] EXCEPT !.pc = "insert", !.pos = @ + 1]]
    /\ UNCHANGED <<results, fileVars, notIngestVars>>

\* insert_one raises (store unreachable); nothing catches it
InsertRaises(r) ==
    /\ runs[r].pc = "insert_one"
    /\ runs' = [runs EXCEPT ![r] = Aborted(runs[r])]
    /\ UNCHANGED <<results, collection, fileVars, notIngestVars>>

IdleIngest ==
    /\ results = [c \in Categories |-> <<>>]
    /\ runs = [r \in RunIds |-> IdleRun]

(***************************************************************************)
(* Idle parts, for the specifications that do not use them                 *)
(***************************************************************************)
IdleCanon ==
    /\ keyword = None /\ mappings = <<>>
    /\ result1 = None /\ result2 = None /\ cstep = "off"

IdleSavers ==
    /\ temp = [p \in Savers |-> Absent]
    /\ spc = [p \in Savers |-> "idle"]
    /\ sdata = [p \in Savers |-> default_data]
    /\ sold = [p \in Savers |-> Absent]
    /\ replaced = <<>>

IdleStore ==
    /\ osname = "posix" /\ primary = Absent /\ backup = Absent
    /\ IdleSavers
    /\ loadResult = None

IdleNorm ==
    /\ nmappings = <<>> /\ npc = "off" /\ npos = 0
    /\ updated_count = 0 /\ error_count = 0
    /\ nlog = <<>> /\ nresults = <<>>

(***************************************************************************)
(* Specification SpecStore: one saver, crashes, and loads, from any state  *)
(* of the two files                                                        *)
(***************************************************************************)
InitStore ==
    /\ IdleIngest
    /\ IdleCanon
    /\ collection = <<>>
    /\ IdleNorm
    /\ osname \in {"posix", "nt"}
    /\ primary \in FileStates
    /\ backup \in FileStates
    /\ IdleSavers
    /\ loadResult = None

NextStore ==
    \/ \E d \in SaveDocs : SaveBegin(1, d)
    \/ SaveBackup(1)
    \/ SaveMkstemp(1)
    \/ SaveWrite(1)
    \/ SaveReplace(1)
    \/ SaveRename(1)
    \/ SaveCleanup(1)
    \/ Crash(1)
    \/ Load

SpecStore == InitStore /\ [][NextStore]_vars

(***************************************************************************)
(* Specification SpecRoundTrip: one save of any well-formed table, and     *)
(* loads once it has returned or raised                                    *)
(***************************************************************************)
RoundTripDocs == {Doc("dict", Fields, m, SomeHierarchy, SomeBacklog) : m \in MappingTables}

InitRoundTrip ==
    /\ IdleIngest
    /\ IdleCanon
    /\ collection = <<>>
    /\ IdleNorm
    /\ osname \in {"posix", "nt"}
    /\ primary \in {Absent, File(Serialize(FullB))}
    /\ backup = Absent
    /\ IdleSavers
    /\ loadResult = None

NextRoundTrip ==
    \/ \E d \in RoundTripDocs : SaveBegin(1, d)
    \/ SaveBackup(1)
    \/ SaveMkstemp(1)
    \/ SaveWrite(1)
    \/ SaveReplace(1)
    \/ SaveRename(1)
    \/ SaveCleanup(1)
    \/ spc[1] \in {"done", "raised"} /\ Load

SpecRoundTrip == InitRoundTrip /\ [][NextRoundTrip]_vars

(***************************************************************************)
(* Specification SpecTwoSavers: two processes load the table, merge and    *)
(* save with no coordination                                               *)
(***************************************************************************)
InitTwoSavers ==
    /\ IdleIngest
    /\ IdleCanon
    /\ collection = <<>>
    /\ IdleNorm
    /\ osname \in {"posix", "nt"}
    /\ primary \in {File(Serialize(FullA)), File(Serialize(FullB))}
    /\ backup = Absent
    /\ IdleSavers
    /\ loadResult = None

NextTwoSavers ==
    \E p \in Savers :
        \/ MergeBegin(p)
        \/ SaveBackup(p)
        \/ SaveMkstemp(p)
        \/ SaveWrite(p)
        \/ SaveReplace(p)
        \/ SaveRename(p)
        \/ SaveCleanup(p)

SpecTwoSavers == InitTwoSavers /\ [][NextTwoSavers]_vars

(***************************************************************************)
(* Specification SpecNorm: successive normalisation runs, one table        *)
(***************************************************************************)
\* the keywords fields found in the store: legacy raw lists, lists already
\* canonical in either order, a list that collapses, a list json cannot hold
PaperPool ==
    { Paper(0, FALSE, <<>>, NoScore),
      Paper(0, TRUE, <<>>, NoScore),
      Paper(0, TRUE, << <<"N","N">> >>, NoScore),
      Paper(0, TRUE, << <<"N","N">>, <<"N"," ","N">> >>, NoScore),
      Paper(0, TRUE, << <<"N"," ","N">>, <<"N","N">> >>, NoScore),
      Paper(0, TRUE, << <<"n","n">>, <<"N","N">> >>, NoScore),
      Paper(0, TRUE, << <<"N","N">>, <<"N","N">> >>, NoScore),
      Paper(0, TRUE, << NonString, <<"N","N">> >>, NoScore) }

RECURSIVE SeqsUpTo(_, _)
SeqsUpTo(S, n) ==
    IF n = 0 THEN {<<>>}
    ELSE LET shorter == SeqsUpTo(S, n - 1)
         IN  shorter \cup
             {Append(q, x) : q \in {r \in shorter : Len(r) = n - 1}, x \in S}

\* entry_id is the position, so that identifiers are unique
Numbered(q) == [i \in 1..Len(q) |-> [q[i] EXCEPT !.entry_id = i]]

Corpora == {Numbered(q) : q \in SeqsUpTo(PaperPool, MaxPapers)}

NormTables == {<<>>, TableA, TableB}

InitNorm ==
    /\ IdleIngest
    /\ IdleCanon
    /\ IdleStore
    /\ collection \in Corpora
    /\ nmappings \in NormTables
    /\ npc = "idle" /\ npos = 0
    /\ updated_count = 0 /\ error_count = 0
    /\ nlog = <<>> /\ nresults = <<>>

NextNorm == NormStart \/ NormItem \/ NormReturn

SpecNorm == InitNorm /\ [][NextNorm]_vars

(***************************************************************************)
(* Specification SpecMerge: Apply Merge by one operator: the merge is      *)
(* added to the table on file, the table is saved and, the save having     *)
(* returned, the corpus is normalised                                      *)
(***************************************************************************)
\* the table before the merge: empty, a key listing another spelling, or
\* what an earlier merge under its default canonical form (the first
\* selected keyword) left
PriorTables ==
    { <<>>, TableA, TableB,
      ApplyMerge(<<>>, <<"n"," ","n">>, << <<"n"," ","n">>, <<"N","N">> >>) }

\* stored keyword lists, raw and canonical
MergePapers ==
    { Paper(0, TRUE, << <<"n"," ","n">> >>, NoScore),
      Paper(0, TRUE, << <<"N","N">>, <<"n"," ","n">> >>, NoScore),
      Paper(0, TRUE, << <<"N"," ","N">> >>, NoScore),
      Paper(0, TRUE, << <<"N","N">> >>, NoScore) }

\* the keywords offered for selection are those found in the corpus
\* (app.py 236-241)
InCorpus(kw, coll) == \E i \in 1..Len(coll) : kw \in ToSet(coll[i].keywords)

MergeCorpora ==
    {c \in {Numbered(q) : q \in SeqsUpTo(MergePapers, MaxPapers)} :
        \A j \in 1..Len(MergeOf(1).selected_keywords) :
            InCorpus(MergeOf(1).selected_keywords[j], c)}

InitMerge ==
    /\ IdleIngest
    /\ IdleCanon
    /\ IdleNorm
    /\ IdleSavers
    /\ loadResult = None
    /\ osname \in {"posix", "nt"}
    /\ primary \in {File(Serialize(Doc("dict", Fields, m, <<>>, <<>>))) : m \in PriorTables}
    /\ backup = Absent
    /\ collection \in MergeCorpora

NextMerge ==
    \/ MergeBegin(1)
    \/ SaveBackup(1)
    \/ SaveMkstemp(1)
    \/ SaveWrite(1)
    \/ SaveReplace(1)
    \/ SaveRename(1)
    \/ SaveCleanup(1)
    \/ MergeNormalize(1)
    \/ NormItem
    \/ NormReturn

SpecMerge == InitMerge /\ [][NextMerge]_vars

(***************************************************************************)
(* Specifications of the ingestion job                                     *)
(***************************************************************************)
RECURSIVE TotalLen(_, _)
TotalLen(f, c) == IF c = 0 THEN 0 ELSE Len(f[c]) + TotalLen(f, c - 1)

\* both runs of a behaviour are given the same results
SearchResults ==
    {f \in [Categories -> SeqsUpTo(EntryIds, MaxResults)] :
        TotalLen(f, NumCategories) <= MaxResults}

InitIngest ==
    /\ IdleCanon
    /\ IdleNorm
    /\ IdleSavers
    /\ loadResult = None
    /\ osname = "posix"
    /\ backup = Absent
    /\ collection = <<>>
    /\ results \in SearchResults
    /\ runs = [r \in RunIds |-> IdleRun]

\* SpecOverlap: two runs of the job interleave, step by step
InitOverlap ==
    /\ InitIngest
    /\ primary = File(Serialize(FullA))

NextOverlap ==
    \E r \in RunIds :
        \/ RunStart(r)
        \/ Search(r)
        \/ Curate(r)
        \/ InsertCheck(r)
        \/ InsertOne(r)

SpecOverlap == InitOverlap /\ [][NextOverlap]_vars

\* SpecSeq: the second run starts when the first has stopped
InitSeq ==
    /\ InitIngest
    /\ primary \in {File(Serialize(FullA)), Unreadable}

NextSeq ==
    \/ RunStart(1)
    \/ RunStopped(1) /\ RunStart(2)
    \/ \E r \in RunIds :
        \/ Search(r)
        \/ SearchRaises(r)
        \/ Curate(r)
        \/ CurateRaises(r)
        \/ InsertCheck(r)
        \/ InsertOne(r)
        \/ InsertRaises(r)

SpecSeq == InitSeq /\ [][NextSeq]_vars

\* SpecOneRun: one run of the job, failures included, with its history kept
InitOneRun ==
    /\ IdleCanon
    /\ IdleNorm
    /\ IdleSavers
    /\ loadResult = None
    /\ osname = "posix"
    /\ primary = File(Serialize(FullA))
    /\ backup = Absent
    /\ collection = <<>>
    /\ results \in SearchResults
    /\ runs = [r \in RunIds |-> [IdleRun EXCEPT !.logged = {"scores"}]]

NextOneRun ==
    \/ RunStart(1)
    \/ Search(1)
    \/ SearchRaises(1)
    \/ Curate(1)
    \/ CurateRaises(1)
    \/ InsertCheck(1)
    \/ InsertOne(1)
    \/ InsertRaises(1)

SpecOneRun == InitOneRun /\ [][NextOneRun]_vars

\* SpecMidRun: one run of the job while another process saves the table
InitMidRun ==
    /\ IdleCanon
    /\ IdleNorm
    /\ IdleSavers
    /\ loadResult = None
    /\ osname \in {"posix", "nt"}
    /\ primary = File(Serialize(FullA))
    /\ backup = Absent
    /\ collection = <<>>
    /\ results \in SearchResults
    /\ runs = [r \in RunIds |-> [IdleRun EXCEPT !.logged = {"tables"}]]

NextMidRun ==
    \/ RunStart(1)
    \/ Search(1)
    \/ Curate(1)
    \/ CurateRaises(1)
    \/ InsertCheck(1)
    \/ InsertOne(1)
    \/ \E d \in SaveDocs : SaveBegin(1, d)
    \/ SaveBackup(1)
    \/ SaveMkstemp(1)
    \/ SaveWrite(1)
    \/ SaveReplace(1)
    \/ SaveRename(1)
    \/ SaveCleanup(1)

SpecMidRun == InitMidRun /\ [][NextMidRun]_vars

(***************************************************************************)
(* Specification SpecCanon: normalize_keyword applied to its own result    *)
(***************************************************************************)
InitCanon ==
    /\ IdleIngest
    /\ IdleStore
    /\ collection = <<>>
    /\ IdleNorm
    /\ keyword \in Keywords
    /\ mappings \in MappingTables \cup EmptyKeyTables
    /\ result1 = None
    /\ result2 = None
    /\ cstep = "input"

NormalizeOnce ==
    /\ cstep = "input"
    /\ result1' = normalize_keyword(keyword, mappings)
    /\ cstep' = "once"
    /\ UNCHANGED <<keyword, mappings, result2, notCanonVars>>

NormalizeTwice ==
    /\ cstep = "once"
    /\ result2' = normalize_keyword(result1, mappings)
    /\ cstep' = "twice"
    /\ UNCHANGED <<keyword, mappings, result1, notCanonVars>>

NextCanon == NormalizeOnce \/ NormalizeTwice

SpecCanon == InitCanon /\ [][NextCanon]_vars

(***************************************************************************)
(* C4: canonicalising an already canonicalised keyword changes nothing,    *)
(* for every mapping table and every keyword.                              *)
(***************************************************************************)
C4_Idempotent == cstep = "twice" => result2 = result1

(***************************************************************************)
(* C1: while save_keyword_mappings runs, and wherever it stops, the        *)
(* primary file is the file the save found or the complete serialisation   *)
(* of the table being saved; never partial, never absent if it existed.    *)
(***************************************************************************)
C1_PrimaryOldOrNew ==
    spc[1] # "idle" =>
        \/ primary = sold[1]
        \/ primary = File(Serialize(sdata[1]))

(***************************************************************************)
(* C2: load_keyword_mappings never raises; it returns the primary's        *)
(* content if that is a valid record, else the backup's if it loads, else  *)
(* the empty default (an absent primary gives the default).                *)
(***************************************************************************)
ValidPrimary(p) == p.exists /\ p.readable /\ Parses(p.text) /\ Parsed(p.text).kind = "dict"
BackupLoads(b) == b.exists /\ b.readable /\ Parses(b.text)

ClaimedLoad(p, b) ==
    IF ValidPrimary(p) THEN FillDefaults(Parsed(p.text))
    ELSE IF p.exists /\ BackupLoads(b) THEN Parsed(b.text)
    ELSE default_data

C2_LoadNeverRaises ==
    loadResult # None =>
        /\ ~loadResult.raised
        /\ loadResult.value = ClaimedLoad(loadResult.p, loadResult.b)

(***************************************************************************)
(* C3: every table load_keyword_mappings returns is a record holding all   *)
(* three fields mappings, hierarchy and unmapped_keywords.                 *)
(***************************************************************************)
C3_LoadedWellFormed ==
    (loadResult # None /\ ~loadResult.raised) =>
        /\ loadResult.value.kind = "dict"
        /\ loadResult.value.has = Fields

(***************************************************************************)
(* C5: a second run of normalize_paper_keywords over the same corpus with  *)
(* the same mapping table, nothing else writing in between, returns        *)
(* updated_count = 0.                                                      *)
(***************************************************************************)
C5_SecondRunUpdatesNothing == Len(nresults) >= 2 => nresults[2][1] = 0

(***************************************************************************)
(* C6: a paper is rewritten exactly when it has a keywords field and the   *)
(* set of its canonicalised keywords differs, as a set, from the stored    *)
(* keywords; updated_count is the number of papers rewritten.              *)
(***************************************************************************)
C6_RewriteIffSetDiffers ==
    /\ \A i \in 1..Len(nlog) :
          ~nlog[i].raised =>
             (nlog[i].wrote <=>
                 (nlog[i].had /\ ToSet(nlog[i].after) # ToSet(nlog[i].before)))
    /\ updated_count = Cardinality({i \in 1..Len(nlog) : nlog[i].wrote})

(***************************************************************************)
(* C7: when two ingestion runs overlap, the existence check insert_papers  *)
(* makes before each insert keeps the store free of two records with the   *)
(* same entry_id, under every interleaving.                                *)
(***************************************************************************)
NoDuplicateEntryIds ==
    \A i, j \in 1..Len(collection) :
        i # j => collection[i].entry_id # collection[j].entry_id

C7_OverlapNoDuplicates == NoDuplicateEntryIds

(***************************************************************************)
(* C8: through and after two successive runs over identical search         *)
(* results, a paper returned for several categories or several times in    *)
(* one result list included, no two stored records share an entry_id.      *)
(***************************************************************************)
C8_SuccessiveNoDuplicates ==
    \A i \in 1..Len(collection) : \A j \in 1..Len(collection) :
        collection[i].entry_id = collection[j].entry_id => i = j

RepeatedInOneList(q) == \E i, j \in 1..Len(q) : i # j /\ q[i] = q[j]

C8_Witness ==
    /\ \A r \in RunIds : runs[r].pc = "done"
    /\ collection # <<>>
    /\ \E c \in Categories :
          /\ RepeatedInOneList(results[c])
          /\ paper_exists(collection, results[c][1])
    /\ \E c, d \in Categories :
          c # d /\ \E i \in 1..Len(results[c]) : \E j \in 1..Len(results[d]) :
              results[c][i] = results[d][j] /\ paper_exists(collection, results[c][i])

(***************************************************************************)
(* C9: a fetch, scoring or insert step that raises in one category never   *)
(* keeps the run from the categories after it: a run that has stopped has  *)
(* called the search of every category.                                    *)
(***************************************************************************)
C9_FailureIsolated ==
    \A r \in RunIds : RunStopped(r) => runs[r].attempted = Categories

(***************************************************************************)
(* C10: a run loads the mapping table once and never re-reads it: every    *)
(* keyword list scored in any category of the run is stored as its         *)
(* canonicalisation under the table the run loaded first, whatever another *)
(* process saves while the run goes through its categories.                *)
(***************************************************************************)
C10_TableFixedForRun ==
    \A r \in RunIds : \A e \in runs[r].curated :
        ToSet(e.keywords) = ToSet(NormalizeAll(e.raw, runs[r].start))

(***************************************************************************)
(* C11: an item of normalize_paper_keywords whose processing raises adds   *)
(* exactly one to error_count and is left as stored; every other item is   *)
(* treated as its own keywords and the table dictate, and the run goes     *)
(* through the whole corpus, returning the number of items that raised.    *)
(***************************************************************************)
Unparsable(kws) == NonString \in ToSet(kws)

C11_ErrorIsolated ==
    /\ error_count = Cardinality({i \in 1..Len(nlog) : nlog[i].raised})
    /\ \A i \in 1..Len(nlog) :
          LET e == nlog[i]
          IN  /\ e.idx = i
              /\ (e.had /\ Unparsable(e.before)) => e.raised
              /\ e.raised => collection[i].keywords = e.before
              /\ (e.had /\ ~Unparsable(e.before)) =>
                    /\ e.after \in ListOrders(ToSet(NormalizeAll(e.before, nmappings)))
                    /\ e.wrote => collection[i].keywords = e.after
                    /\ (~e.wrote /\ ~e.raised) =>
                          (e.after = e.before /\ collection[i].keywords = e.before)
    /\ (npc = "idle" /\ nresults # <<>>) =>
          /\ Len(nlog) = Len(collection)
          /\ nresults[Len(nresults)][2] =
                Cardinality({i \in 1..Len(nlog) : nlog[i].raised})

\* a run over a corpus whose first item is unparsable has returned: one
\* error, and the item after it was rewritten
C11_Witness ==
    /\ npc = "idle" /\ Len(nresults) = 1
    /\ nresults[1] = <<1, 1>>
    /\ Len(nlog) = 2
    /\ nlog[1].raised /\ Unparsable(nlog[1].before)
    /\ nlog[2].wrote

(***************************************************************************)
(* C12: when a step of the write sequence of save_keyword_mappings fails   *)
(* (the write, flush or fsync of the temp file, or the replace), the save  *)
(* ends by raising to its caller and its temporary file exists no more.    *)
(***************************************************************************)
C12_FailureRemovesTemp ==
    \A p \in Savers : spc[p] = "raised" => ~temp[p].exists

(***************************************************************************)
(* C13: a load_keyword_mappings that follows a successful                  *)
(* save_keyword_mappings(T) of a well-formed table T returns T: the same   *)
(* canonical keys in the same order, each with the same variants in the    *)
(* same order, and the same hierarchy and unmapped keywords.               *)
(***************************************************************************)
C13_RoundTrip ==
    (loadResult # None /\ loadResult.at[1] = "done") =>
        /\ ~loadResult.raised
        /\ loadResult.value = sdata[1]

\* a table of two keys, one of them with two variants, saved over an older
\* file and loaded back
C13_Witness ==
    /\ loadResult # None /\ loadResult.at[1] = "done"
    /\ sold[1] = File(Serialize(FullB))
    /\ Len(loadResult.value.mappings) = 2
    /\ Len(loadResult.value.mappings[1].variants) = 2
    /\ loadResult.value.mappings[1].canonical = <<"n"," ","n">>
    /\ loadResult.value.mappings[2].canonical = <<"N","N">>

(***************************************************************************)
(* C14: for every mapping table and every keyword that is not empty after  *)
(* trimming, normalize_keyword returns a string that is not empty.         *)
(***************************************************************************)
C14_NonEmptyResult ==
    (cstep \in {"once", "twice"} /\ Strip(keyword) # <<>>) => result1 # <<>>

(***************************************************************************)
(* C15: normalize_keyword resolves by explicit mapping first, then by the  *)
(* fixed special-case spellings, then by the acronym / title-case rule: a  *)
(* keyword whose trimmed lower-case form is the lower-case form of a       *)
(* variant of some key gives a canonical key listing such a variant, also  *)
(* when a special case or the acronym rule would apply to it.              *)
(***************************************************************************)
MatchingKeys(kw, m) ==
    {i \in 1..Len(m) :
        \E j \in 1..Len(m[i].variants) : Lower(m[i].variants[j]) = Strip(Lower(kw))}

C15_MappingPrecedence ==
    cstep \in {"once", "twice"} =>
        LET hits == MatchingKeys(keyword, mappings)
            trimmed == Strip(keyword)
            lowered == Strip(Lower(keyword))
        IN  /\ hits # {} => \E i \in hits : result1 = mappings[i].canonical
            /\ (hits = {} /\ InSpecialCases(lowered)) => result1 = SpecialCase(lowered)
            /\ (hits = {} /\ ~InSpecialCases(lowered)) =>
                  result1 = IF Len(trimmed) <= AcronymMaxLen /\ IsUpper(trimmed)
                                  /\ ~HasSpace(trimmed)
                            THEN Upper(trimmed) ELSE Title(trimmed)

\* "NN" alone is an acronym and a special case; listed under "n n" it gives
\* "n n"
C15_Witness ==
    /\ cstep = "once"
    /\ keyword = <<"N","N">>
    /\ capitalize_keyword(keyword) = <<"N","N">>
    /\ mappings = << [canonical |-> <<"n"," ","n">>, variants |-> << <<"N","N">> >>] >>
    /\ result1 = <<"n"," ","n">>

(***************************************************************************)
(* C16: when the keyword matches variants listed under several canonical   *)
(* keys, normalize_keyword returns, verbatim, the key that comes first in  *)
(* the iteration order of the mapping table.                               *)
(***************************************************************************)
C16_FirstMatchWins ==
    cstep \in {"once", "twice"} =>
        LET hits == MatchingKeys(keyword, mappings)
        IN  hits # {} =>
               \E i \in hits : /\ \A j \in hits : i <= j
                               /\ result1 = mappings[i].canonical

\* two keys list a matching variant and the first, not the second, is returned
C16_Witness ==
    /\ cstep = "once"
    /\ Len(mappings) = 2
    /\ MatchingKeys(keyword, mappings) = {1, 2}
    /\ result1 = mappings[1].canonical
    /\ result1 # mappings[2].canonical
    /\ result1 # capitalize_keyword(Strip(keyword))

(***************************************************************************)
(* C17: every record an ingestion run inserts carries a relevance_score    *)
(* of at least MIN_RELEVANCE_SCORE; a curated item without a               *)
(* relevance_score counts as score 0 and is never inserted.                *)
(***************************************************************************)
C17_InsertedAboveThreshold ==
    /\ \A i \in 1..Len(collection) :
          /\ collection[i].relevance_score # NoScore
          /\ collection[i].relevance_score >= MIN_RELEVANCE_SCORE
    /\ \A r \in RunIds :
          runs[r].pc \in {"insert", "insert_one"} =>
             \A i \in 1..Len(runs[r].papers) :
                 runs[r].papers[i].relevance_score # NoScore

\* a finished run: one paper came back from curate_papers without a score
\* and is not in the store, another was scored and inserted
C17_Witness ==
    /\ runs[1].pc = "done"
    /\ collection # <<>>
    /\ \E id \in runs[1].unscored : ~paper_exists(collection, id)

(***************************************************************************)
(* C18: when two processes have each loaded the table, merged in memory    *)
(* and saved with no coordination, then under every interleaving the       *)
(* primary file is, once both saves have ended, exactly the complete table *)
(* written by the save whose replace came last: no mix, no partial file,   *)
(* and the merge of the other process is not in it.                        *)
(***************************************************************************)
SaveEnded(p) == spc[p] \in {"done", "raised"}

C18_LastWriterWins ==
    ((\A p \in Savers : SaveEnded(p)) /\ replaced # <<>>) =>
        LET last == replaced[Len(replaced)]
        IN  /\ primary = File(Serialize(sdata[last]))
            /\ (\A p \in Savers : sold[p] = sold[last]) =>
                  Parsed(primary.text).mappings =
                     ApplyMerge(Parsed(sold[last].text).mappings,
                                MergeOf(last).canonical_form,
                                MergeOf(last).selected_keywords)

(***************************************************************************)
(* C19: a save never takes the last valid table away: if the primary file  *)
(* or the backup file holds a valid table before a step of                 *)
(* save_keyword_mappings, one of the two holds a valid table after it, so  *)
(* wherever the save ends (returned, raised, or crashed, right after the   *)
(* backup copy too) a later load does not fall to the empty default.  The  *)
(* primary may be the corrupt one and the backup the valid one.            *)
(***************************************************************************)
HoldsValidTable(f) ==
    /\ f.exists /\ f.readable
    /\ Parses(f.text)
    /\ Parsed(f.text).kind = "dict"

C19_SaveKeepsAValidFile ==
    [][(HoldsValidTable(primary) \/ HoldsValidTable(backup))
          => (HoldsValidTable(primary') \/ HoldsValidTable(backup'))]_vars

(***************************************************************************)
(* C20: after a successful Apply Merge of the selected keywords V into the *)
(* canonical form c (variants appended under c, table saved, corpus        *)
(* normalised with zero errors) no stored paper lists a member of V other  *)
(* than c, whatever the mapping table was before.                          *)
(***************************************************************************)
C20_MergeLeavesNoVariant ==
    (spc[1] = "done" /\ npc = "idle" /\ nresults # <<>> /\ nresults[1][2] = 0) =>
        \A i \in 1..Len(collection) :
            \A k \in ToSet(collection[i].keywords) :
                k \in ToSet(MergeOf(1).selected_keywords) =>
                    k = MergeOf(1).canonical_form

(***************************************************************************)
(* C21: in Apply Merge normalize_paper_keywords is invoked only after      *)
(* save_keyword_mappings has returned successfully.  Every step that       *)
(* starts or continues the normalisation, or that changes a stored paper,  *)
(* is taken with the save returned and the primary file holding the very   *)
(* table the corpus is rewritten against; so when the save raised, no      *)
(* paper is modified by that merge.                                        *)
(***************************************************************************)
\* the primary file holds the table m
Persisted(m) ==
    /\ primary.exists
    /\ Parses(primary.text)
    /\ Parsed(primary.text).kind = "dict"
    /\ Parsed(primary.text).mappings = m

C21_NormalizeOnlyAfterSave ==
    [][(collection' # collection \/ npc' # "off") =>
            (spc[1] = "done" /\ Persisted(nmappings'))]_vars

\* the save raised while the store holds a paper the merged table rewrites
C21_Witness ==
    /\ spc[1] = "raised"
    /\ npc = "off"
    /\ \E i \in 1..Len(collection) :
          NormalizeAll(collection[i].keywords, sdata[1].mappings)
              # collection[i].keywords

=============================================================================
